---- MODULE Spec2Model ----
(***************************************************************************)
(* Model of cdk-portal-wallet's SimpleWallet (crates/cdk-portal-wallet/    *)
(* src/lib.rs): the ledger `invoices`, the bounded mpsc channel            *)
(* (sender / receiver slot), the cancellation token, the liveness flag and *)
(* the MintPayment operations.  A section of the source that holds a tokio *)
(* Mutex guard contains no `.await`, so it excludes every other such       *)
(* section and is one step here; the `.await` on Sender::send and the one  *)
(* on the stream's next signal can wait for another party and are step     *)
(* boundaries.                                                             *)
(***************************************************************************)
EXTENDS Integers, Naturals, Sequences, FiniteSets, TLC

\* ---------------------------------------------------------------- bounds
\* random 32-byte values drawn (creations + quotes) in Spec
MaxHash == 2
\* random 32-byte values drawn in SpecBurst (more than the channel holds)
MaxBurst == 34
\* random 32-byte values drawn in SpecLive
MaxLive == 2

\* -------------------------------------------------------------- constants
\* mpsc::channel(32)
Capacity == 32

Tasks == {1, 2}
\* lock holders besides the tasks: nobody, and the stream's filter_map future
Free == [holder |-> "nobody"]
Held(t) == [holder |-> "task", task |-> t]
Adapter == [holder |-> "stream"]

\* the incoming requests callers make: (unit, amount)
Requests == {<<"msat", 1000>>, <<"sat", 2000>>}

\* ------------------------------------------------------------------ values
None == [kind |-> "None"]
Some(x) == [kind |-> "Some", v |-> x]

\* PaymentIdentifier: the hash-keyed variant and one other variant
PaymentHash(h) == [kind |-> "PaymentHash", v |-> h]
CustomId(s) == [kind |-> "CustomId", v |-> s]

\* Result<_, payment::Error>: Ok carries one value, Err a Custom(message)
Ok(x) == [ok |-> TRUE, err |-> "", val |-> <<x>>]
Err(msg) == [ok |-> FALSE, err |-> msg, val |-> <<>>]
Custom(msg) == Err(msg)

NoCall == [op |-> "none"]

VARIABLES
    invoices,                 \* payment_hash -> (invoice_id, paid, amount, unit)
    chan,                     \* signals buffered between sender and receiver
    receiver,                 \* the Option<Receiver> slot: "Some" or "None"
    rx,                       \* the Receiver itself: "inslot", "open", "closed"
    wait_invoice_cancel_token,\* TRUE once cancelled
    wait_invoice_is_active,   \* the AtomicBool
    pc,                       \* per task: position inside the current call
    local,                    \* per task: arguments and locals of the call
    ret,                      \* the call that returned in the last step, if any
    stream,                   \* per task: the stream handle it holds
    inflight,                 \* signal taken by the adapter, not yet mapped
    events,                   \* events the channel-backed stream has yielded
    sent,                     \* signals accepted by the channel, in order
    created,                  \* what the successful creations were asked and answered
    nextHash,                 \* next fresh 32-byte random value
    nextUuid,                 \* next fresh Uuid::new_v4()
    quoted,                   \* the lookup values the quotes handed out
    invoices_lock,            \* holder of the Mutex around invoices
    receiver_lock             \* holder of the Mutex around the receiver slot

vars == <<invoices, chan, receiver, rx, wait_invoice_cancel_token,
          wait_invoice_is_active, pc, local, ret, stream, inflight, events,
          sent, created, nextHash, nextUuid, quoted, invoices_lock,
          receiver_lock>>

chanVars == <<chan, rx, inflight, sent>>
flagVars == <<wait_invoice_cancel_token, wait_invoice_is_active>>
streamVars == <<stream, events>>
randVars == <<nextHash, nextUuid>>
\* a section under a guard is one step: it finds the lock free and leaves it free
lockVars == <<invoices_lock, receiver_lock>>
\* everything a call that only reads the flags or the ledger leaves alone
histVars == <<created, randVars, quoted, lockVars>>

\* SimpleWallet::new
Init ==
    /\ invoices = <<>>
    /\ chan = <<>>
    /\ receiver = "Some"
    /\ rx = "inslot"
    /\ wait_invoice_cancel_token = FALSE
    /\ wait_invoice_is_active = FALSE
    /\ pc = [t \in Tasks |-> "idle"]
    /\ local = [t \in Tasks |-> NoCall]
    /\ ret = NoCall
    /\ stream = [t \in Tasks |-> "none"]
    /\ inflight = None
    /\ events = <<>>
    /\ sent = <<>>
    /\ created = {}
    /\ nextHash = 1
    /\ nextUuid = 1
    /\ quoted = {}
    /\ invoices_lock = Free
    /\ receiver_lock = Free

\* ------------------------------------------------------------ the ledger
\* mutant of insert: the map is replaced by the new entry
insert_reset(map, k, v) == [h \in {k} |-> v]

\* HashMap::insert: overwrite on an existing key
insert(map, k, v) ==
    [h \in (DOMAIN map) \cup {k} |-> IF h = k THEN v ELSE map[h]]

\* HashMap::get
get(map, k) == IF k \in DOMAIN map THEN Some(map[k]) ELSE None

\* a step inside a call returns nothing yet
NoReturn == ret' = NoCall

Return(t, call, result) ==
    /\ ret' = [op |-> call.op, arg |-> call, res |-> result]
    /\ pc' = [pc EXCEPT ![t] = "idle"]
    /\ local' = [local EXCEPT ![t] = NoCall]

\* ------------------------------------------------------- is_active / cancel
\* lines 64-66
is_wait_invoice_active(t) ==
    /\ pc[t] = "idle"
    /\ Return(t, [op |-> "is_wait_invoice_active"], Ok(wait_invoice_is_active))
    /\ UNCHANGED <<invoices, chanVars, receiver, flagVars, streamVars, histVars>>

\* lines 68-70
cancel_wait_invoice(t) ==
    /\ pc[t] = "idle"
    /\ wait_invoice_cancel_token' = TRUE
    /\ Return(t, [op |-> "cancel_wait_invoice"], Ok("unit"))
    /\ UNCHANGED <<invoices, chanVars, receiver, wait_invoice_is_active,
                   streamVars, histVars>>

\* ------------------------------------------- create_incoming_payment_request
\* mutant of create_incoming_payment_request: the signal goes out before
\* the record is inserted
create_incoming_payment_request_send_first(t, unit, options) ==
    /\ pc[t] = "idle"
    /\ LET call == [op |-> "create_incoming_payment_request",
                    unit |-> unit, options |-> options]
       IN IF options.kind = "Bolt12"
          THEN /\ Return(t, call, Custom("Unsupported Bolt12"))
               /\ UNCHANGED <<chan, sent, randVars>>
          ELSE /\ rx # "closed"
               /\ Len(chan) < Capacity
               /\ chan' = Append(chan, nextHash)
               /\ sent' = Append(sent, nextHash)
               /\ pc' = [pc EXCEPT ![t] = "create_send"]
               /\ local' = [local EXCEPT ![t] =
                     [call |-> call,
                      invoice_id |-> nextUuid,
                      random_hash |-> nextHash]]
               /\ nextUuid' = nextUuid + 1
               /\ nextHash' = nextHash + 1
               /\ NoReturn
    /\ UNCHANGED <<invoices, rx, inflight, receiver, flagVars, streamVars, created,
                   quoted, lockVars>>

\* mutant of create_incoming_payment_request: the record is inserted unpaid
create_incoming_payment_request_unpaid(t, unit, options) ==
    /\ pc[t] = "idle"
    /\ LET call == [op |-> "create_incoming_payment_request",
                    unit |-> unit, options |-> options]
       IN IF options.kind = "Bolt12"
          THEN /\ Return(t, call, Custom("Unsupported Bolt12"))
               /\ UNCHANGED <<invoices, randVars>>
          ELSE /\ invoices' = insert(invoices, nextHash,
                                  [invoice_id |-> nextUuid,
                                   paid |-> FALSE,
                                   amount |-> options.amount,
                                   unit |-> unit])
               /\ pc' = [pc EXCEPT ![t] = "create_send"]
               /\ local' = [local EXCEPT ![t] =
                     [call |-> call,
                      invoice_id |-> nextUuid,
                      random_hash |-> nextHash]]
               /\ nextUuid' = nextUuid + 1
               /\ nextHash' = nextHash + 1
               /\ NoReturn
    /\ UNCHANGED <<chanVars, receiver, flagVars, streamVars, created, quoted, lockVars>>

\* options: [kind |-> "Bolt11", amount, unix_expiry] or [kind |-> "Bolt12"]
\* lines 177-192: reject Bolt12, else insert the record as paid
create_incoming_payment_request(t, unit, options) ==
    /\ pc[t] = "idle"
    /\ LET call == [op |-> "create_incoming_payment_request",
                    unit |-> unit, options |-> options]
       IN IF options.kind = "Bolt12"
          THEN /\ Return(t, call, Custom("Unsupported Bolt12"))
               /\ UNCHANGED <<invoices, randVars>>
          ELSE /\ invoices' = insert(invoices, nextHash,
                                     [invoice_id |-> nextUuid,
                                      paid |-> TRUE,
                                      amount |-> options.amount,
                                      unit |-> unit])
               /\ pc' = [pc EXCEPT ![t] = "create_send"]
               /\ local' = [local EXCEPT ![t] =
                     [call |-> call,
                      invoice_id |-> nextUuid,
                      random_hash |-> nextHash]]
               /\ nextUuid' = nextUuid + 1
               /\ nextHash' = nextHash + 1
               /\ NoReturn
    /\ UNCHANGED <<chanVars, receiver, flagVars, streamVars, created, quoted,
                   lockVars>>

\* Sender::send(..).await: waits for capacity while the receiver lives,
\* fails at once when the receiver is gone
SendReady == rx = "closed" \/ Len(chan) < Capacity

\* mutant of create_send: the failed send is returned to the caller
create_send_propagate(t) ==
    /\ pc[t] = "create_send"
    /\ SendReady
    /\ IF rx = "closed"
       THEN /\ Return(t, local[t].call, Custom("channel closed"))
            /\ UNCHANGED <<chan, sent, created>>
       ELSE /\ chan' = Append(chan, local[t].random_hash)
            /\ sent' = Append(sent, local[t].random_hash)
            /\ Return(t, local[t].call,
                  Ok([request_lookup_id |-> PaymentHash(local[t].random_hash),
                      request |-> local[t].invoice_id,
                      expiry |-> None]))
            /\ created' = created \cup
                  {[request_lookup_id |-> PaymentHash(local[t].random_hash),
                    request |-> local[t].invoice_id,
                    unit |-> local[t].call.unit,
                    amount |-> local[t].call.options.amount]}
    /\ UNCHANGED <<invoices, rx, inflight, receiver, flagVars, streamVars, randVars,
                   quoted, lockVars>>

\* lines 195-201: send the signal, ignore a failed send, return
create_send(t) ==
    /\ pc[t] = "create_send"
    /\ SendReady
    /\ IF rx = "closed"
       THEN UNCHANGED <<chan, sent>>
       ELSE /\ chan' = Append(chan, local[t].random_hash)
            /\ sent' = Append(sent, local[t].random_hash)
    /\ Return(t, local[t].call,
              Ok([request_lookup_id |-> PaymentHash(local[t].random_hash),
                  request |-> local[t].invoice_id,
                  expiry |-> None]))
    /\ created' = created \cup
          {[request_lookup_id |-> PaymentHash(local[t].random_hash),
            request |-> local[t].invoice_id,
            unit |-> local[t].call.unit,
            amount |-> local[t].call.options.amount]}
    /\ UNCHANGED <<invoices, rx, inflight, receiver, flagVars, streamVars, randVars,
                   quoted, lockVars>>

\* -------------------------------------------------------- wait_payment_event
\* mutant of wait_payment_event: reads the slot without emptying it
wait_payment_event_no_take(t) ==
    /\ pc[t] = "idle"
    /\ stream[t] = "none"
    /\ receiver' = receiver
    /\ IF receiver = "Some"
       THEN /\ rx' = "open"
            /\ stream' = [stream EXCEPT ![t] = "rx"]
            /\ Return(t, [op |-> "wait_payment_event"], Ok("ReceiverStream"))
       ELSE /\ rx' = rx
            /\ stream' = [stream EXCEPT ![t] = "empty"]
            /\ Return(t, [op |-> "wait_payment_event"], Ok("empty"))
    /\ UNCHANGED <<invoices, chan, inflight, sent, flagVars, events, histVars>>

\* lines 76-109: take the receiver out of the slot and hand out a stream
wait_payment_event(t) ==
    /\ pc[t] = "idle"
    /\ stream[t] = "none"
    /\ receiver' = "None"
    /\ IF receiver = "Some"
       THEN /\ rx' = "open"
            /\ stream' = [stream EXCEPT ![t] = "rx"]
            /\ Return(t, [op |-> "wait_payment_event"], Ok("ReceiverStream"))
       ELSE /\ rx' = rx
            /\ stream' = [stream EXCEPT ![t] = "empty"]
            /\ Return(t, [op |-> "wait_payment_event"], Ok("empty"))
    /\ UNCHANGED <<invoices, chan, inflight, sent, flagVars, events, histVars>>

\* ------------------------------------------------------ the stream adapter
\* mutant of stream_recv: hands over the newest buffered signal first
stream_recv_lifo ==
    /\ rx = "open"
    /\ inflight = None
    /\ chan # <<>>
    /\ inflight' = Some(chan[Len(chan)])
    /\ chan' = SubSeq(chan, 1, Len(chan) - 1)
    /\ NoReturn
    /\ UNCHANGED <<invoices, rx, sent, receiver, flagVars, streamVars, histVars,
                   pc, local>>

\* ReceiverStream::poll_next: the next buffered signal, in order
stream_recv ==
    /\ rx = "open"
    /\ inflight = None
    /\ chan # <<>>
    /\ inflight' = Some(Head(chan))
    /\ chan' = Tail(chan)
    /\ NoReturn
    /\ UNCHANGED <<invoices, rx, sent, receiver, flagVars, streamVars, histVars,
                   pc, local>>

\* mutant of filter_map: the event carries no amount
filter_map_zero_amount(map, payment_hash) ==
    LET found == get(map, payment_hash)
    IN IF found # None
       THEN IF found.v.paid
            THEN Some([payment_identifier |-> PaymentHash(payment_hash),
                       payment_amount |-> 0,
                       unit |-> found.v.unit,
                       payment_id |-> found.v.invoice_id])
            ELSE None
       ELSE None

\* mutant of filter_map: the paid test inverted
filter_map_unpaid(map, payment_hash) ==
    LET found == get(map, payment_hash)
    IN IF found # None
       THEN IF ~found.v.paid
            THEN Some([payment_identifier |-> PaymentHash(payment_hash),
                       payment_amount |-> found.v.amount,
                       unit |-> found.v.unit,
                       payment_id |-> found.v.invoice_id])
            ELSE None
       ELSE None

\* lines 89-102: what the closure makes of one signal
filter_map(map, payment_hash) ==
    LET found == get(map, payment_hash)
    IN IF found # None
       THEN IF found.v.paid
            THEN Some([payment_identifier |-> PaymentHash(payment_hash),
                       payment_amount |-> found.v.amount,
                       unit |-> found.v.unit,
                       payment_id |-> found.v.invoice_id])
            ELSE None
       ELSE None

\* lines 88-103: lock the ledger, yield the event or skip the signal
stream_map ==
    /\ rx = "open"
    /\ inflight # None
    /\ LET item == filter_map(invoices, inflight.v)
       IN events' = IF item # None THEN Append(events, item.v) ELSE events
    /\ inflight' = None
    /\ NoReturn
    /\ UNCHANGED <<invoices, chan, rx, sent, receiver, flagVars, stream, histVars,
                   pc, local>>

\* futures::stream::empty(): the first poll ends the sequence
poll_empty(t) ==
    /\ stream[t] = "empty"
    /\ stream' = [stream EXCEPT ![t] = "ended"]
    /\ NoReturn
    /\ UNCHANGED <<invoices, chanVars, receiver, flagVars, events, histVars,
                   pc, local>>

\* mutant of drop_stream: the dropped receiver goes back into the slot
drop_stream_refill(t) ==
    /\ stream[t] # "none"
    /\ stream' = [stream EXCEPT ![t] = "none"]
    /\ IF stream[t] = "rx"
       THEN /\ rx' = "inslot"
            /\ receiver' = "Some"
            /\ inflight' = None
            /\ chan' = chan
       ELSE UNCHANGED <<rx, chan, inflight, receiver>>
    /\ NoReturn
    /\ UNCHANGED <<invoices, sent, flagVars, events, histVars, pc, local>>

\* the consumer drops its stream; dropping the Receiver closes the channel
\* and discards what it buffered
drop_stream(t) ==
    /\ stream[t] # "none"
    /\ stream' = [stream EXCEPT ![t] = "none"]
    /\ IF stream[t] = "rx"
       THEN /\ rx' = "closed"
            /\ chan' = <<>>
            /\ inflight' = None
       ELSE UNCHANGED <<rx, chan, inflight>>
    /\ NoReturn
    /\ UNCHANGED <<invoices, sent, receiver, flagVars, events, histVars, pc, local>>

\* -------------------------------------------------------- get_payment_quote
\* options: [kind |-> "Bolt11", melt_options, amount_milli_satoshis]
\*          or [kind |-> "Bolt12"]
\* mutant of quote_amount_msat: Bolt12 quoted as a zero amount
quote_amount_msat_bolt12(options) ==
    IF options.kind = "Bolt11"
    THEN IF options.melt_options # None
         THEN Ok(options.melt_options.v)
         ELSE IF options.amount_milli_satoshis # None
              THEN Ok(options.amount_milli_satoshis.v)
              ELSE Custom("Unknown invoice amount")
    ELSE Ok(0)

\* lines 117-131
quote_amount_msat(options) ==
    IF options.kind = "Bolt11"
    THEN IF options.melt_options # None
         THEN Ok(options.melt_options.v)
         ELSE IF options.amount_milli_satoshis # None
              THEN Ok(options.amount_milli_satoshis.v)
              ELSE Custom("Unknown invoice amount")
    ELSE Custom("Unsupported Bolt12")

\* mutant of get_payment_quote: the lookup id is the newest ledger key when
\* there is one
get_payment_quote_ledger_key(t, options) ==
    /\ pc[t] = "idle"
    /\ LET call == [op |-> "get_payment_quote", options |-> options]
           amount_msat == quote_amount_msat(options)
           id == IF DOMAIN invoices # {}
                 THEN CHOOSE h \in DOMAIN invoices :
                          \A k \in DOMAIN invoices : k <= h
                 ELSE nextHash
       IN IF amount_msat.ok
          THEN /\ Return(t, call,
                     Ok([request_lookup_id |-> Some(PaymentHash(id)),
                         amount |-> amount_msat.val[1],
                         fee |-> 0,
                         state |-> "Unpaid",
                         unit |-> "msat"]))
               /\ nextHash' = nextHash + 1
               /\ quoted' = quoted \cup {id}
          ELSE /\ Return(t, call, amount_msat)
               /\ UNCHANGED <<nextHash, quoted>>
    /\ UNCHANGED <<invoices, chanVars, receiver, flagVars, streamVars, nextUuid,
                   created, lockVars>>

\* lines 112-140; the _unit argument is never read
get_payment_quote(t, options) ==
    /\ pc[t] = "idle"
    /\ LET call == [op |-> "get_payment_quote", options |-> options]
           amount_msat == quote_amount_msat(options)
       IN IF amount_msat.ok
          THEN /\ Return(t, call,
                     Ok([request_lookup_id |-> Some(PaymentHash(nextHash)),
                         amount |-> amount_msat.val[1],
                         fee |-> 0,
                         state |-> "Unpaid",
                         unit |-> "msat"]))
               /\ nextHash' = nextHash + 1
               /\ quoted' = quoted \cup {nextHash}
          ELSE /\ Return(t, call, amount_msat)
               /\ UNCHANGED <<nextHash, quoted>>
    /\ UNCHANGED <<invoices, chanVars, receiver, flagVars, streamVars, nextUuid,
                   created, lockVars>>

\* ------------------------------------------------------------- make_payment
\* mutant of find_by_invoice_id: the comparison with the request dropped
find_by_invoice_id_any(map, invoice_id) == DOMAIN map

\* line 156: the entries find_map can stop at
find_by_invoice_id(map, invoice_id) ==
    {h \in DOMAIN map : map[h].invoice_id = invoice_id}

\* mutant of make_payment: signals the settlement again (the send that
\* the comment at line 159 leaves out)
make_payment_resend(t, options) ==
    /\ pc[t] = "idle"
    /\ LET call == [op |-> "make_payment", options |-> options]
       IN IF options.kind = "Bolt12"
          THEN /\ Return(t, call, Custom("Unsupported Bolt12"))
               /\ UNCHANGED <<invoices, chan, sent>>
          ELSE LET invoice_id == options.bolt11
                   matches == find_by_invoice_id(invoices, invoice_id)
               IN IF matches # {}
                  THEN \E payment_hash \in matches :
                         /\ invoices' = [invoices EXCEPT ![payment_hash].paid = TRUE]
                         /\ chan' = Append(chan, payment_hash)
                         /\ sent' = Append(sent, payment_hash)
                         /\ Return(t, call,
                               Ok([payment_lookup_id |-> PaymentHash(payment_hash),
                                   payment_proof |-> Some(invoice_id),
                                   status |-> "Paid",
                                   total_spent |-> invoices[payment_hash].amount,
                                   unit |-> invoices[payment_hash].unit]))
                  ELSE /\ UNCHANGED <<invoices, chan, sent>>
                       /\ Return(t, call, Custom("Invoice not found"))
    /\ UNCHANGED <<rx, inflight, receiver, flagVars, streamVars, histVars>>

\* options: [kind |-> "Bolt11", bolt11 |-> the invoice string] or Bolt12
\* lines 147-169: mark the matching record paid, or fail; the _unit argument
\* is never read
make_payment(t, options) ==
    /\ pc[t] = "idle"
    /\ LET call == [op |-> "make_payment", options |-> options]
       IN IF options.kind = "Bolt12"
          THEN /\ Return(t, call, Custom("Unsupported Bolt12"))
               /\ UNCHANGED invoices
          ELSE LET invoice_id == options.bolt11
                   matches == find_by_invoice_id(invoices, invoice_id)
               IN IF matches # {}
                  THEN \E payment_hash \in matches :
                         /\ invoices' = [invoices EXCEPT ![payment_hash].paid = TRUE]
                         /\ Return(t, call,
                               Ok([payment_lookup_id |-> PaymentHash(payment_hash),
                                   payment_proof |-> Some(invoice_id),
                                   status |-> "Paid",
                                   total_spent |-> invoices[payment_hash].amount,
                                   unit |-> invoices[payment_hash].unit]))
                  ELSE /\ invoices' = invoices
                       /\ Return(t, call, Custom("Invoice not found"))
    /\ UNCHANGED <<chanVars, receiver, flagVars, streamVars, histVars>>

\* -------------------------------------------- check_incoming_payment_status
\* mutant of incoming_status: the unit fixed to msat, as the quote does
incoming_status_msat(map, payment_identifier) ==
    LET found == get(map, payment_identifier.v)
    IN IF found # None /\ found.v.paid
       THEN <<[payment_identifier |-> payment_identifier,
               payment_amount |-> found.v.amount,
               unit |-> "msat",
               payment_id |-> found.v.invoice_id]>>
       ELSE <<>>

\* lines 213-223: the Vec the lookup yields
incoming_status(map, payment_identifier) ==
    LET found == get(map, payment_identifier.v)
    IN IF found # None /\ found.v.paid
       THEN <<[payment_identifier |-> payment_identifier,
               payment_amount |-> found.v.amount,
               unit |-> found.v.unit,
               payment_id |-> found.v.invoice_id]>>
       ELSE <<>>

\* mutant of check_incoming_payment_status: a non-hash identifier is an
\* error, as in check_outgoing_payment
check_incoming_payment_status_strict(t, payment_identifier) ==
    /\ pc[t] = "idle"
    /\ LET call == [op |-> "check_incoming_payment_status",
                    payment_identifier |-> payment_identifier]
       IN IF payment_identifier.kind # "PaymentHash"
          THEN Return(t, call, Custom("Not found"))
          ELSE Return(t, call, Ok(incoming_status(invoices, payment_identifier)))
    /\ UNCHANGED <<invoices, chanVars, receiver, flagVars, streamVars, histVars>>

\* lines 204-224
check_incoming_payment_status(t, payment_identifier) ==
    /\ pc[t] = "idle"
    /\ LET call == [op |-> "check_incoming_payment_status",
                    payment_identifier |-> payment_identifier]
       IN IF payment_identifier.kind # "PaymentHash"
          THEN Return(t, call, Ok(<<>>))
          ELSE Return(t, call, Ok(incoming_status(invoices, payment_identifier)))
    /\ UNCHANGED <<invoices, chanVars, receiver, flagVars, streamVars, histVars>>

\* --------------------------------------------------- check_outgoing_payment
\* mutant of outgoing_status: no proof attached
outgoing_status_no_proof(map, payment_identifier) ==
    LET found == get(map, payment_identifier.v)
    IN IF found # None
       THEN Ok([payment_lookup_id |-> payment_identifier,
                payment_proof |-> None,
                status |-> IF found.v.paid THEN "Paid" ELSE "Unpaid",
                total_spent |-> found.v.amount,
                unit |-> found.v.unit])
       ELSE Custom("Not found")

\* lines 235-245
outgoing_status(map, payment_identifier) ==
    LET found == get(map, payment_identifier.v)
    IN IF found # None
       THEN Ok([payment_lookup_id |-> payment_identifier,
                payment_proof |-> Some(found.v.invoice_id),
                status |-> IF found.v.paid THEN "Paid" ELSE "Unpaid",
                total_spent |-> found.v.amount,
                unit |-> found.v.unit])
       ELSE Custom("Not found")

\* lines 226-246
check_outgoing_payment(t, payment_identifier) ==
    /\ pc[t] = "idle"
    /\ LET call == [op |-> "check_outgoing_payment",
                    payment_identifier |-> payment_identifier]
       IN IF payment_identifier.kind # "PaymentHash"
          THEN Return(t, call, Custom("Not found"))
          ELSE Return(t, call, outgoing_status(invoices, payment_identifier))
    /\ UNCHANGED <<invoices, chanVars, receiver, flagVars, streamVars, histVars>>

\* ----------------------------------------------------------------- Next
Bolt12 == [kind |-> "Bolt12"]
Bolt11Incoming(amount) ==
    [kind |-> "Bolt11", amount |-> amount, unix_expiry |-> None]
IncomingCalls ==
    {<<r[1], Bolt11Incoming(r[2])>> : r \in Requests}
        \cup {<<r[1], Bolt12>> : r \in Requests}

\* melt options and invoice amounts that tell the two sources apart
QuoteOptions ==
    [kind : {"Bolt11"}, melt_options : {None, Some(3000)},
     amount_milli_satoshis : {None, Some(4000)}] \cup {Bolt12}

\* outgoing requests: the issued invoice strings and one (0) nobody issued
PaymentOptions(issued) ==
    [kind : {"Bolt11"}, bolt11 : issued \cup {0}] \cup {Bolt12}

\* identifiers a caller can name: hash-keyed ones, drawn already or not, and
\* one that is not hash-keyed
Identifiers(hashes) ==
    {PaymentHash(h) : h \in hashes} \cup {CustomId("label")}

Next ==
    \/ \E t \in Tasks : is_wait_invoice_active(t)
    \/ \E t \in Tasks : cancel_wait_invoice(t)
    \/ \E t \in Tasks, c \in IncomingCalls :
          /\ nextHash <= MaxHash
          /\ create_incoming_payment_request(t, c[1], c[2])
    \/ \E t \in Tasks : create_send(t)
    \/ \E t \in Tasks : wait_payment_event(t)
    \/ stream_recv
    \/ stream_map
    \/ \E t \in Tasks : poll_empty(t)
    \/ \E t \in Tasks : drop_stream(t)
    \/ \E t \in Tasks, o \in QuoteOptions :
          /\ nextHash <= MaxHash
          /\ get_payment_quote(t, o)
    \/ \E t \in Tasks, o \in PaymentOptions(1..(nextUuid - 1)) :
          make_payment(t, o)
    \/ \E t \in Tasks, id \in Identifiers(1..MaxHash) :
          check_incoming_payment_status(t, id)
    \/ \E t \in Tasks, id \in Identifiers(1..MaxHash) :
          check_outgoing_payment(t, id)

Spec == Init /\ [][Next]_vars

\* One task creates request after request while the other may attach and
\* poll: enough creations to fill the channel.
Creator == 1
Consumer == 2

NextBurst ==
    \/ /\ nextHash <= MaxBurst
       /\ create_incoming_payment_request(Creator, "msat", Bolt11Incoming(1000))
    \/ create_send(Creator)
    \/ wait_payment_event(Consumer)
    \/ stream_recv
    \/ stream_map
    \/ check_incoming_payment_status(Consumer, PaymentHash(1))

SpecBurst == Init /\ [][NextBurst]_vars

\* The consumer that holds a stream keeps polling it.
NextLive ==
    \/ \E t \in Tasks :
          /\ nextHash <= MaxLive
          /\ create_incoming_payment_request(t, "msat", Bolt11Incoming(1000))
    \/ \E t \in Tasks : create_send(t)
    \/ \E t \in Tasks : wait_payment_event(t)
    \/ stream_recv
    \/ stream_map
    \/ \E t \in Tasks : poll_empty(t)
    \/ \E t \in Tasks : drop_stream(t)
    \/ \E t \in Tasks : cancel_wait_invoice(t)
    \/ \E t \in Tasks, o \in PaymentOptions(1..(nextUuid - 1)) :
          make_payment(t, o)

SpecLive ==
    /\ Init
    /\ [][NextLive]_vars
    /\ WF_vars(stream_recv)
    /\ WF_vars(stream_map)
    /\ \A t \in Tasks : WF_vars(poll_empty(t))

\* ------------------------------------------------------------- the locks
\* The same calls with the two tokio mutexes explicit: a call enters, waits
\* for the lock it needs, runs the section that holds the guard and drops
\* the guard where the source does.
MaxLock == 2

\* the calls whose next step is invoices.lock().await
LedgerSections ==
    {"create_insert", "make_payment", "check_incoming_payment_status",
     "check_outgoing_payment"}

\* lines 153, 190, 212, 234: the ledger lock is granted when nobody holds it
lock_invoices(t) ==
    /\ pc[t] \in LedgerSections
    /\ invoices_lock = Free
    /\ invoices_lock' = Held(t)
    /\ NoReturn
    /\ UNCHANGED <<invoices, chanVars, receiver, flagVars, streamVars, created,
                   randVars, quoted, receiver_lock, pc, local>>

\* line 76: the slot lock is granted when nobody holds it
lock_receiver(t) ==
    /\ pc[t] = "wait_payment_event"
    /\ receiver_lock = Free
    /\ receiver_lock' = Held(t)
    /\ NoReturn
    /\ UNCHANGED <<invoices, chanVars, receiver, flagVars, streamVars, created,
                   randVars, quoted, invoices_lock, pc, local>>

\* lines 177-187: reject Bolt12, else draw the reference and the hash
create_incoming_payment_request_enter(t, unit, options) ==
    /\ pc[t] = "idle"
    /\ LET call == [op |-> "create_incoming_payment_request",
                    unit |-> unit, options |-> options]
       IN IF options.kind = "Bolt12"
          THEN /\ Return(t, call, Custom("Unsupported Bolt12"))
               /\ UNCHANGED randVars
          ELSE /\ pc' = [pc EXCEPT ![t] = "create_insert"]
               /\ local' = [local EXCEPT ![t] =
                     [call |-> call,
                      invoice_id |-> nextUuid,
                      random_hash |-> nextHash]]
               /\ nextUuid' = nextUuid + 1
               /\ nextHash' = nextHash + 1
               /\ NoReturn
    /\ UNCHANGED <<invoices, chanVars, receiver, flagVars, streamVars, created,
                   quoted, lockVars>>

\* mutant of create_insert: the guard is kept across the send
create_insert_keep_guard(t) ==
    /\ pc[t] = "create_insert"
    /\ invoices_lock = Held(t)
    /\ invoices' = insert(invoices, local[t].random_hash,
                       [invoice_id |-> local[t].invoice_id,
                        paid |-> TRUE,
                        amount |-> local[t].call.options.amount,
                        unit |-> local[t].call.unit])
    /\ invoices_lock' = invoices_lock
    /\ pc' = [pc EXCEPT ![t] = "create_send"]
    /\ NoReturn
    /\ UNCHANGED <<chanVars, receiver, flagVars, streamVars, created, randVars,
                   quoted, receiver_lock, local>>

\* lines 189-192: insert under the guard, which the end of the statement drops
create_insert(t) ==
    /\ pc[t] = "create_insert"
    /\ invoices_lock = Held(t)
    /\ invoices' = insert(invoices, local[t].random_hash,
                       [invoice_id |-> local[t].invoice_id,
                        paid |-> TRUE,
                        amount |-> local[t].call.options.amount,
                        unit |-> local[t].call.unit])
    /\ invoices_lock' = Free
    /\ pc' = [pc EXCEPT ![t] = "create_send"]
    /\ NoReturn
    /\ UNCHANGED <<chanVars, receiver, flagVars, streamVars, created, randVars,
                   quoted, receiver_lock, local>>

\* lines 72-76: the call reaches receiver.lock().await
wait_payment_event_enter(t) ==
    /\ pc[t] = "idle"
    /\ stream[t] = "none"
    /\ pc' = [pc EXCEPT ![t] = "wait_payment_event"]
    /\ local' = [local EXCEPT ![t] = [call |-> [op |-> "wait_payment_event"]]]
    /\ NoReturn
    /\ UNCHANGED <<invoices, chanVars, receiver, flagVars, streamVars, histVars>>

\* lines 77-109: take the receiver under the slot guard, which the return drops
wait_payment_event_locked(t) ==
    /\ pc[t] = "wait_payment_event"
    /\ receiver_lock = Held(t)
    /\ receiver' = "None"
    /\ IF receiver = "Some"
       THEN /\ rx' = "open"
            /\ stream' = [stream EXCEPT ![t] = "rx"]
            /\ Return(t, local[t].call, Ok("ReceiverStream"))
       ELSE /\ rx' = rx
            /\ stream' = [stream EXCEPT ![t] = "empty"]
            /\ Return(t, local[t].call, Ok("empty"))
    /\ receiver_lock' = Free
    /\ UNCHANGED <<invoices, chan, inflight, sent, flagVars, events, created,
                   randVars, quoted, invoices_lock>>

\* line 88: the closure, polled with a signal, is granted the ledger lock
filter_map_lock ==
    /\ rx = "open"
    /\ inflight # None
    /\ invoices_lock = Free
    /\ invoices_lock' = Adapter
    /\ NoReturn
    /\ UNCHANGED <<invoices, chanVars, receiver, flagVars, streamVars, created,
                   randVars, quoted, receiver_lock, pc, local>>

\* lines 89-103: yield the event or skip the signal; the guard drops with the
\* closure's future
filter_map_locked ==
    /\ invoices_lock = Adapter
    /\ LET item == filter_map(invoices, inflight.v)
       IN events' = IF item # None THEN Append(events, item.v) ELSE events
    /\ inflight' = None
    /\ invoices_lock' = Free
    /\ NoReturn
    /\ UNCHANGED <<invoices, chan, rx, sent, receiver, flagVars, stream, created,
                   randVars, quoted, receiver_lock, pc, local>>

\* the consumer drops its stream between two polls; the closure holds the
\* ledger guard only inside one poll
drop_stream_between_polls(t) ==
    /\ invoices_lock # Adapter
    /\ drop_stream(t)

\* lines 147-152: reject Bolt12, else reach invoices.lock().await
make_payment_enter(t, options) ==
    /\ pc[t] = "idle"
    /\ LET call == [op |-> "make_payment", options |-> options]
       IN IF options.kind = "Bolt12"
          THEN Return(t, call, Custom("Unsupported Bolt12"))
          ELSE /\ pc' = [pc EXCEPT ![t] = "make_payment"]
               /\ local' = [local EXCEPT ![t] = [call |-> call]]
               /\ NoReturn
    /\ UNCHANGED <<invoices, chanVars, receiver, flagVars, streamVars, histVars>>

\* lines 154-169: under the guard, which the return drops
make_payment_locked(t) ==
    /\ pc[t] = "make_payment"
    /\ invoices_lock = Held(t)
    /\ LET invoice_id == local[t].call.options.bolt11
           matches == find_by_invoice_id(invoices, invoice_id)
       IN IF matches # {}
          THEN \E payment_hash \in matches :
                 /\ invoices' = [invoices EXCEPT ![payment_hash].paid = TRUE]
                 /\ Return(t, local[t].call,
                       Ok([payment_lookup_id |-> PaymentHash(payment_hash),
                           payment_proof |-> Some(invoice_id),
                           status |-> "Paid",
                           total_spent |-> invoices[payment_hash].amount,
                           unit |-> invoices[payment_hash].unit]))
          ELSE /\ invoices' = invoices
               /\ Return(t, local[t].call, Custom("Invoice not found"))
    /\ invoices_lock' = Free
    /\ UNCHANGED <<chanVars, receiver, flagVars, streamVars, created, randVars,
                   quoted, receiver_lock>>

\* lines 208-212: an identifier that is not hash-keyed returns at once
check_incoming_payment_status_enter(t, payment_identifier) ==
    /\ pc[t] = "idle"
    /\ LET call == [op |-> "check_incoming_payment_status",
                    payment_identifier |-> payment_identifier]
       IN IF payment_identifier.kind # "PaymentHash"
          THEN Return(t, call, Ok(<<>>))
          ELSE /\ pc' = [pc EXCEPT ![t] = "check_incoming_payment_status"]
               /\ local' = [local EXCEPT ![t] = [call |-> call]]
               /\ NoReturn
    /\ UNCHANGED <<invoices, chanVars, receiver, flagVars, streamVars, histVars>>

\* lines 213-223: under the guard, which the return drops
check_incoming_payment_status_locked(t) ==
    /\ pc[t] = "check_incoming_payment_status"
    /\ invoices_lock = Held(t)
    /\ Return(t, local[t].call,
           Ok(incoming_status(invoices, local[t].call.payment_identifier)))
    /\ invoices_lock' = Free
    /\ UNCHANGED <<invoices, chanVars, receiver, flagVars, streamVars, created,
                   randVars, quoted, receiver_lock>>

\* lines 230-234: an identifier that is not hash-keyed fails at once
check_outgoing_payment_enter(t, payment_identifier) ==
    /\ pc[t] = "idle"
    /\ LET call == [op |-> "check_outgoing_payment",
                    payment_identifier |-> payment_identifier]
       IN IF payment_identifier.kind # "PaymentHash"
          THEN Return(t, call, Custom("Not found"))
          ELSE /\ pc' = [pc EXCEPT ![t] = "check_outgoing_payment"]
               /\ local' = [local EXCEPT ![t] = [call |-> call]]
               /\ NoReturn
    /\ UNCHANGED <<invoices, chanVars, receiver, flagVars, streamVars, histVars>>

\* lines 235-245: under the guard, which the return drops
check_outgoing_payment_locked(t) ==
    /\ pc[t] = "check_outgoing_payment"
    /\ invoices_lock = Held(t)
    /\ Return(t, local[t].call,
           outgoing_status(invoices, local[t].call.payment_identifier))
    /\ invoices_lock' = Free
    /\ UNCHANGED <<invoices, chanVars, receiver, flagVars, streamVars, created,
                   randVars, quoted, receiver_lock>>

NextLocks ==
    \/ \E t \in Tasks : lock_invoices(t)
    \/ \E t \in Tasks : lock_receiver(t)
    \/ \E t \in Tasks, o \in {Bolt11Incoming(1000), Bolt12} :
          /\ nextHash <= MaxLock
          /\ create_incoming_payment_request_enter(t, "msat", o)
    \/ \E t \in Tasks : create_insert(t)
    \/ \E t \in Tasks : create_send(t)
    \/ \E t \in Tasks : wait_payment_event_enter(t)
    \/ \E t \in Tasks : wait_payment_event_locked(t)
    \/ stream_recv
    \/ filter_map_lock
    \/ filter_map_locked
    \/ \E t \in Tasks : drop_stream_between_polls(t)
    \/ \E t \in Tasks, o \in PaymentOptions(1..(nextUuid - 1)) :
          make_payment_enter(t, o)
    \/ \E t \in Tasks : make_payment_locked(t)
    \/ \E t \in Tasks, id \in Identifiers(1..MaxLock) :
          check_incoming_payment_status_enter(t, id)
    \/ \E t \in Tasks : check_incoming_payment_status_locked(t)
    \/ \E t \in Tasks, id \in Identifiers(1..MaxLock) :
          check_outgoing_payment_enter(t, id)
    \/ \E t \in Tasks : check_outgoing_payment_locked(t)

SpecLocks == Init /\ [][NextLocks]_vars

\* ------------------------------------------------------------------ claims

\* C1: create_incoming_payment_request never blocks: a call that has
\* inserted its record can always go on to return, also when the channel
\* holds Capacity undelivered signals and the receiver is alive.
C1_CreateNeverBlocks ==
    \A t \in Tasks : pc[t] = "create_send" => SendReady

\* C2: once cancel_wait_invoice was called, the attached channel-backed
\* stream yields no further event.
C2_CancelEndsStream ==
    [][(wait_invoice_cancel_token /\ rx = "open") => events' = events]_vars

\* C3: is_wait_invoice_active returns true once wait_payment_event has
\* handed out the channel-backed stream, and false before that.
C3_ActiveAfterHandout ==
    ret.op = "is_wait_invoice_active" => ret.res = Ok(rx # "inslot")

\* C4 as stated: whoever attaches a stream and keeps it gets, in the end,
\* the event of every request that was created successfully.
C4_EveryConsumerReceives ==
    \A c \in [request_lookup_id : {PaymentHash(h) : h \in 1..MaxLive},
              request : 1..MaxLive, unit : {"msat"}, amount : {1000}] :
        [](c \in created /\ (\E t \in Tasks : stream[t] # "none")
            => <>(\/ \E i \in 1..Len(events) :
                       events[i].payment_identifier = c.request_lookup_id
                  \/ \A t \in Tasks : stream[t] = "none"))

\* C4 (amended): the holder of the channel-backed stream, as long as it
\* keeps the stream and polls it, gets exactly one event for every request
\* that was created successfully: none is delivered twice, and each is
\* delivered unless the stream is dropped first.
C4_FirstConsumerReceivesOnce ==
    /\ [](\A i, j \in 1..Len(events) :
            events[i].payment_identifier = events[j].payment_identifier => i = j)
    /\ \A c \in [request_lookup_id : {PaymentHash(h) : h \in 1..MaxLive},
                 request : 1..MaxLive, unit : {"msat"}, amount : {1000}] :
          [](c \in created /\ rx = "open"
              => <>(\/ \E i \in 1..Len(events) :
                         /\ events[i].payment_identifier = c.request_lookup_id
                         /\ events[i].payment_id = c.request
                    \/ rx = "closed"))

\* both requests were created before the stream was attached, a payment was
\* made on one of them, and both events have arrived
C4_Witness ==
    /\ Cardinality(created) = MaxLive
    /\ Len(events) = MaxLive
    /\ rx = "open"
    /\ ret.op = "make_payment"

\* C5: events arrive in the order their signals were sent.
C5_Fifo ==
    \A i, j \in 1..Len(events) :
        i < j => \E a, b \in 1..Len(sent) :
                    /\ a < b
                    /\ events[i].payment_identifier = PaymentHash(sent[a])
                    /\ events[j].payment_identifier = PaymentHash(sent[b])

C5_Witness ==
    /\ Len(events) >= 2
    /\ events[1].payment_identifier # events[2].payment_identifier

\* C6: wait_payment_event called while the channel-backed stream is open
\* returns Ok with the empty stream and leaves the open stream and its
\* channel alone; an empty stream ends at its first poll without an event.
C6_SecondAttachEmpty ==
    [][/\ (ret'.op = "wait_payment_event" /\ rx = "open")
            => /\ ret'.res = Ok("empty")
               /\ rx' = "open"
               /\ \A t \in Tasks : stream[t] = "rx" => stream'[t] = "rx"
               /\ <<chan, inflight, events>>' = <<chan, inflight, events>>
       /\ \A t \in Tasks :
            (stream[t] = "empty" /\ stream'[t] # "empty")
                => /\ stream'[t] \in {"ended", "none"}
                   /\ events' = events]_vars

\* the second stream has ended with nothing while the first one delivers
C6_Witness ==
    /\ \E t \in Tasks : stream[t] = "ended"
    /\ \E t \in Tasks : stream[t] = "rx"
    /\ Len(events) >= 1
    /\ inflight # None

\* C7: check_incoming_payment_status on the identifier a creation returned
\* yields exactly one response, with the requested amount and unit and the
\* returned reference.
C7_StatusOfCreated ==
    ret.op = "check_incoming_payment_status" =>
        \A c \in created :
            c.request_lookup_id = ret.arg.payment_identifier =>
                ret.res = Ok(<<[payment_identifier |-> c.request_lookup_id,
                                payment_amount |-> c.amount,
                                unit |-> c.unit,
                                payment_id |-> c.request]>>)

C7_Witness ==
    /\ ret.op = "check_incoming_payment_status"
    /\ \E c \in created :
          /\ c.request_lookup_id = ret.arg.payment_identifier
          /\ c.unit = "sat"
    /\ Cardinality(created) >= 2

\* C8: make_payment on the reference of a ledger record returns Paid, the
\* reference as proof, the record's identifier and its amount, leaves the
\* record paid and adds neither a record nor a signal; called again at once
\* with the same request it returns the same again.
C8_ExecuteMatching ==
    [][(ret'.op = "make_payment" /\ ret'.arg.options.kind = "Bolt11") =>
          /\ \A h \in DOMAIN invoices :
                invoices[h].invoice_id = ret'.arg.options.bolt11 =>
                    /\ invoices'[h].paid
                    /\ ret'.res.ok
                    /\ ret'.res.val[1].status = "Paid"
                    /\ ret'.res.val[1].payment_proof = Some(invoices[h].invoice_id)
                    /\ ret'.res.val[1].payment_lookup_id = PaymentHash(h)
                    /\ ret'.res.val[1].total_spent = invoices[h].amount
                    /\ (invoices[h].paid => invoices' = invoices)
          /\ DOMAIN invoices' = DOMAIN invoices
          /\ <<chan, sent, inflight>>' = <<chan, sent, inflight>>
          /\ (ret.op = "make_payment" /\ ret.arg = ret'.arg) => ret'.res = ret.res]_vars

C8_Witness ==
    /\ ret.op = "make_payment"
    /\ ret.res.ok
    /\ \E c \in created : c.request = ret.arg.options.bolt11 /\ c.amount = 2000

\* C9: make_payment on a reference no ledger record carries fails with
\* "Invoice not found" and changes neither the ledger nor the channel.
C9_ExecuteUnknown ==
    [][(/\ ret'.op = "make_payment"
        /\ ret'.arg.options.kind = "Bolt11"
        /\ \A h \in DOMAIN invoices :
              invoices[h].invoice_id # ret'.arg.options.bolt11)
          => /\ ret'.res = Custom("Invoice not found")
             /\ <<invoices, chan, sent, inflight>>' = <<invoices, chan, sent, inflight>>]_vars

C9_Witness ==
    /\ ret.op = "make_payment"
    /\ ret.res = Custom("Invoice not found")
    /\ invoices # <<>>
    /\ chan # <<>>

\* C10: get_payment_quote for Bolt12 fails with "Unsupported Bolt12", and no
\* get_payment_quote call changes the ledger or the channel.
C10_QuoteLeavesState ==
    [][ret'.op = "get_payment_quote" =>
          /\ ret'.arg.options.kind = "Bolt12" => ret'.res = Custom("Unsupported Bolt12")
          /\ <<invoices, chan, sent, inflight, rx>>' = <<invoices, chan, sent, inflight, rx>>]_vars

C10_Witness ==
    /\ ret.op = "get_payment_quote"
    /\ ret.arg.options.kind = "Bolt12"
    /\ ret.res = Custom("Unsupported Bolt12")
    /\ invoices # <<>>
    /\ chan # <<>>

\* C11: with the receiver dropped, create_incoming_payment_request still
\* returns Ok with the identifier and the reference of a record that is in
\* the ledger, paid, with the requested amount and unit; the signal went
\* nowhere.
C11_CreateWithoutReceiver ==
    (/\ ret.op = "create_incoming_payment_request"
     /\ ret.arg.options.kind = "Bolt11"
     /\ rx = "closed")
        => /\ ret.res.ok
           /\ LET r == ret.res.val[1]
                  h == r.request_lookup_id.v
              IN /\ r.request_lookup_id.kind = "PaymentHash"
                 /\ h \in DOMAIN invoices
                 /\ invoices[h] = [invoice_id |-> r.request,
                                   paid |-> TRUE,
                                   amount |-> ret.arg.options.amount,
                                   unit |-> ret.arg.unit]
                 /\ r.expiry = None
                 /\ chan = <<>>
                 /\ \A i \in 1..Len(sent) : sent[i] # h

\* a creation that began while the stream was attached and sent after it was
\* dropped
C11_Witness ==
    /\ ret.op = "create_incoming_payment_request"
    /\ ret.res.ok
    /\ rx = "closed"
    /\ Len(sent) = 1
    /\ ret.res.val[1].request_lookup_id = PaymentHash(2)

\* C12: check_outgoing_payment on a hash-keyed identifier in the ledger
\* returns Paid or Unpaid after the record's flag, the reference as proof and
\* the amount as total_spent; on any other identifier it fails with
\* "Not found"; it never changes the ledger.
C12_OutgoingStatus ==
    [][ret'.op = "check_outgoing_payment" =>
          /\ invoices' = invoices
          /\ LET id == ret'.arg.payment_identifier
             IN IF id.kind = "PaymentHash" /\ id.v \in DOMAIN invoices
                THEN /\ ret'.res.ok
                     /\ ret'.res.val[1].status =
                            (IF invoices[id.v].paid THEN "Paid" ELSE "Unpaid")
                     /\ ret'.res.val[1].payment_proof = Some(invoices[id.v].invoice_id)
                     /\ ret'.res.val[1].total_spent = invoices[id.v].amount
                ELSE ret'.res = Custom("Not found")]_vars

C12_Witness ==
    /\ ret.op = "check_outgoing_payment"
    /\ ret.res.ok
    /\ ret.res.val[1].total_spent = 2000
    /\ ret.res.val[1].payment_proof = Some(2)

\* C13: no step removes a ledger record, changes its reference, amount or
\* unit, or turns its paid flag from true to false.
C13_LedgerMonotone ==
    [][\A h \in DOMAIN invoices :
          /\ h \in DOMAIN invoices'
          /\ invoices'[h].invoice_id = invoices[h].invoice_id
          /\ invoices'[h].amount = invoices[h].amount
          /\ invoices'[h].unit = invoices[h].unit
          /\ invoices[h].paid => invoices'[h].paid]_vars

\* two records, the older one paid out
C13_Witness ==
    /\ Cardinality(DOMAIN invoices) = 2
    /\ ret.op = "make_payment"
    /\ ret.res.ok
    /\ ret.res.val[1].payment_lookup_id = PaymentHash(1)

\* C14: every signal in the channel, held by the stream adapter or already
\* turned into an event names a record that is in the ledger and paid.
C14_SignalsBacked ==
    /\ \A i \in 1..Len(chan) :
          chan[i] \in DOMAIN invoices /\ invoices[chan[i]].paid
    /\ inflight # None =>
          inflight.v \in DOMAIN invoices /\ invoices[inflight.v].paid
    /\ \A i \in 1..Len(sent) :
          sent[i] \in DOMAIN invoices /\ invoices[sent[i]].paid

\* one signal with the adapter while the next record is inserted and its
\* signal not yet sent
C14_Witness ==
    /\ inflight # None
    /\ \E t \in Tasks :
          /\ pc[t] = "create_send"
          /\ local[t].random_hash \in DOMAIN invoices
          /\ \A i \in 1..Len(sent) : sent[i] # local[t].random_hash

\* C16: the receiver is handed out at most once: only a call that finds the
\* slot full gets the receiver stream and it empties the slot; an empty slot
\* stays empty and the receiver never returns to it; a call that finds the
\* slot empty gets the empty stream, also after the first stream was dropped.
C16_SingleUse ==
    [][/\ receiver = "None" => receiver' = "None"
       /\ rx # "inslot" => rx' # "inslot"
       /\ rx = "closed" => rx' = "closed"
       /\ Cardinality({t \in Tasks : stream'[t] = "rx"}) <= 1
       /\ ret'.op = "wait_payment_event" =>
             IF receiver = "Some"
             THEN /\ ret'.res = Ok("ReceiverStream")
                  /\ receiver' = "None"
                  /\ rx = "inslot"
             ELSE ret'.res = Ok("empty")]_vars

\* a call after the first stream was dropped
C16_Witness ==
    /\ ret.op = "wait_payment_event"
    /\ ret.res = Ok("empty")
    /\ rx = "closed"
    /\ \A t \in Tasks : stream[t] # "rx"

\* C17: when the adapter maps a received signal it emits an event exactly
\* when the ledger then holds a paid record under that hash, and the event
\* carries the hash and that record's amount, unit and reference; otherwise
\* it emits nothing, and in both cases the stream stays open for the next
\* signal. The closure yields nothing for a hash without a record and for a
\* record whose flag is false.
C17_EventFromLedger ==
    [][(inflight # None /\ inflight' = None /\ rx' = "open") =>
          LET h == inflight.v
          IN /\ IF h \in DOMAIN invoices /\ invoices[h].paid
                THEN events' = Append(events,
                        [payment_identifier |-> PaymentHash(h),
                         payment_amount |-> invoices[h].amount,
                         unit |-> invoices[h].unit,
                         payment_id |-> invoices[h].invoice_id])
                ELSE events' = events
             /\ stream' = stream
             /\ invoices' = invoices
             /\ \A k \in (1..MaxHash) \ DOMAIN invoices :
                   filter_map(invoices, k) = None
             /\ h \in DOMAIN invoices =>
                   filter_map([invoices EXCEPT ![h].paid = FALSE], h) = None]_vars

\* the second signal mapped while the first event is already out
C17_Witness ==
    /\ Len(events) = 2
    /\ events[2].payment_identifier = PaymentHash(2)
    /\ events[2].payment_amount = invoices[2].amount
    /\ inflight = None
    /\ rx = "open"

\* C18: check_incoming_payment_status always returns Ok and changes neither
\* the ledger nor the channel; for an identifier that is not hash-keyed, has
\* no record or has an unpaid record the Vec is empty.
C18_IncomingStatusTotal ==
    [][ret'.op = "check_incoming_payment_status" =>
          /\ ret'.res.ok
          /\ invoices' = invoices
          /\ chanVars' = chanVars
          /\ receiver' = receiver
          /\ LET id == ret'.arg.payment_identifier
             IN (\/ id.kind # "PaymentHash"
                 \/ id.v \notin DOMAIN invoices
                 \/ ~invoices[id.v].paid)
                    => ret'.res = Ok(<<>>)]_vars

\* an identifier that is not hash-keyed, asked about while a record exists
C18_Witness ==
    /\ ret.op = "check_incoming_payment_status"
    /\ ret.arg.payment_identifier.kind # "PaymentHash"
    /\ ret.res = Ok(<<>>)
    /\ invoices # <<>>
    /\ chan # <<>>

\* C19: every ledger record is paid, so check_outgoing_payment never answers
\* Unpaid for a known hash and the adapter never skips a signal it received.
C19_AlwaysPaid ==
    /\ \A h \in DOMAIN invoices : invoices[h].paid
    /\ (ret.op = "check_outgoing_payment" /\ ret.res.ok) =>
          ret.res.val[1].status = "Paid"
    /\ inflight # None => filter_map(invoices, inflight.v) # None

\* the status of the newest of two records, asked for while a signal is with
\* the adapter
C19_Witness ==
    /\ ret.op = "check_outgoing_payment"
    /\ ret.res.ok
    /\ ret.res.val[1].status = "Paid"
    /\ ret.arg.payment_identifier = PaymentHash(2)
    /\ inflight # None

\* C20: a hash returned by get_payment_quote is never a ledger key:
\* check_outgoing_payment on it answers "Not found", and a successful
\* make_payment never returns it.
C20_QuoteIdUnknown ==
    /\ \A q \in quoted :
          /\ q \notin DOMAIN invoices
          /\ outgoing_status(invoices, PaymentHash(q)) = Custom("Not found")
    /\ (/\ ret.op = "check_outgoing_payment"
        /\ ret.arg.payment_identifier.kind = "PaymentHash"
        /\ ret.arg.payment_identifier.v \in quoted)
          => ret.res = Custom("Not found")
    /\ (ret.op = "make_payment" /\ ret.res.ok) =>
          ret.res.val[1].payment_lookup_id.v \notin quoted

\* a quote taken after a record was created, then the status of the quote's
\* hash asked for
C20_Witness ==
    /\ quoted = {2}
    /\ 1 \in DOMAIN invoices
    /\ ret.op = "check_outgoing_payment"
    /\ ret.arg.payment_identifier = PaymentHash(2)
    /\ ret.res = Custom("Not found")

\* C15: a task waiting on the channel send or on the slot lock does not
\* hold the ledger lock, nor does the adapter while it waits for the next
\* signal; no task holds the slot lock and the ledger lock together; whoever
\* holds a lock can take the step that releases it, so no state has tasks
\* waiting on each other's locks.
C15_LockDiscipline ==
    /\ \A t \in Tasks :
          /\ pc[t] = "create_send" => invoices_lock # Held(t)
          /\ (pc[t] = "wait_payment_event" /\ receiver_lock # Held(t))
                => invoices_lock # Held(t)
          /\ ~(receiver_lock = Held(t) /\ invoices_lock = Held(t))
          /\ receiver_lock = Held(t) => pc[t] \notin LedgerSections
          /\ invoices_lock = Held(t) =>
                ENABLED (\/ create_insert(t)
                         \/ make_payment_locked(t)
                         \/ check_incoming_payment_status_locked(t)
                         \/ check_outgoing_payment_locked(t))
          /\ receiver_lock = Held(t) => ENABLED wait_payment_event_locked(t)
    /\ (rx = "open" /\ inflight = None) => invoices_lock # Adapter
    /\ invoices_lock = Adapter => ENABLED filter_map_locked
    /\ receiver_lock # Adapter

\* one task holds the ledger lock for its insert while the other waits for
\* it and the attached adapter waits with a signal in hand
C15_Witness ==
    /\ invoices_lock = Held(1)
    /\ pc[1] = "create_insert"
    /\ pc[2] \in LedgerSections
    /\ rx = "open"
    /\ inflight # None

====
